---------------------------- MODULE Spec2Model ----------------------------
(***************************************************************************)
(* A model of rps.js: the generalised rock-paper-scissors game with an     *)
(* HMAC commitment.  One session is main() -> RPSGame constructor ->       *)
(* GameController.playGame(), suspended once in promptUser().              *)
(*                                                                         *)
(* Strings that the program only compares or prints (move labels, keys,    *)
(* messages) are TLA+ strings.  The line typed by the user is a sequence   *)
(* of one-character strings, because the program parses it (trim, Number). *)
(* Numbers produced by Number() are decimal fractions n/d, d a power of    *)
(* ten, or NaN.  chalk colouring is dropped: it does not change the text.  *)
(***************************************************************************)
EXTENDS Integers, Sequences, FiniteSets

VARIABLES
    pc,             \* position of the program
    argv,           \* process.argv.slice(2)
    moves,          \* this.moves of the constructed game (<<>> before)
    hmacKey,        \* RPSGame.hmacKey
    computerMove,   \* const computerMove of playGame
    hmac,           \* const hmac of playGame
    userInput,      \* const userInput of playGame (the trimmed answer)
    userMoveIndex,  \* const userMoveIndex of playGame
    userMove,       \* const userMove of playGame
    result,         \* what determineWinner returned (or that it threw)
    helpTable,      \* the table generateTable built
    tty             \* the terminal transcript: all lines printed and typed

vars == <<pc, argv, moves, hmacKey, computerMove, hmac, userInput,
          userMoveIndex, userMove, result, helpTable, tty>>

---------------------------------------------------------------------------
(* Bounds of the model *)

\* the longest argument list tried
MaxArgs == 5

\* the longest line the user types
MaxLineLen == 3

\* labels the argument lists are built from
LabelPool == <<"Rock", "Paper", "Scissors", "Lizard", "Spock", "Fire", "Water">>

\* values crypto.randomBytes(32).toString('hex') may return
Keys == {"key-a", "key-b"}

\* characters the user may type
Chars == {"?", " ", "-", ".", "a", "0", "1", "2", "3", "9"}

---------------------------------------------------------------------------
(* Values *)

Undefined    == "<undefined>"   \* JavaScript's undefined
NoKey        == "<no key>"
NoMove       == "<no move>"
NoResult     == "<no result>"
NoInput      == <<"<no input>">>
NoDigest     == <<>>
NaN          == [nan |-> TRUE,  n |-> 0, d |-> 1]
NoNumber     == [nan |-> FALSE, n |-> 0, d |-> 0]

Draw         == "It's a draw!"
Won          == "You won!"
ComputerWon  == "Computer won!"
Threw        == "InvalidInputError"

InvalidMoveMessage == "Please choose a valid move by entering an available number."
UsageMessage == "Please give an odd number (at least greater than or equal to 3) of non-repeating strings as moves."

Min(a, b) == IF a < b THEN a ELSE b
Max(a, b) == IF a > b THEN a ELSE b

Ev(k, v) == [kind |-> k, val |-> v]

---------------------------------------------------------------------------
(* Array.prototype helpers *)

\* Array.prototype.indexOf: 0-based position of the first match, or -1
indexOf(arr, x) ==
    IF \E i \in 1..Len(arr) : arr[i] = x
    THEN (CHOOSE i \in 1..Len(arr) :
              arr[i] = x /\ \A j \in 1..(i - 1) : arr[j] # x) - 1
    ELSE -1

\* Array.prototype.slice(start, end): a negative index counts from the end
slice(arr, start, end) ==
    LET len  == Len(arr)
        from == IF start < 0 THEN Max(len + start, 0) ELSE Min(start, len)
        to   == IF end < 0 THEN Max(len + end, 0) ELSE Min(end, len)
    IN  [k \in 1..Max(to - from, 0) |-> arr[from + k]]

\* Array.prototype.includes
includes(arr, x) == \E i \in 1..Len(arr) : arr[i] = x

\* arr[index] for a number index: defined only at an integer 0..length-1
elementAt(arr, num) ==
    IF /\ ~num.nan
       /\ num.n % num.d = 0
       /\ (num.n \div num.d) \in 0..(Len(arr) - 1)
    THEN arr[(num.n \div num.d) + 1]
    ELSE Undefined

---------------------------------------------------------------------------
(* String.prototype.trim and Number(string) *)

Digits == <<"0", "1", "2", "3", "4", "5", "6", "7", "8", "9">>

IsDigit(c) == \E i \in 1..Len(Digits) : Digits[i] = c

DigitValue(c) == (CHOOSE i \in 1..Len(Digits) : Digits[i] = c) - 1

RECURSIVE TrimStart(_)
TrimStart(s) ==
    IF s # <<>> /\ Head(s) = " " THEN TrimStart(Tail(s)) ELSE s

RECURSIVE TrimEnd(_)
TrimEnd(s) ==
    IF s # <<>> /\ s[Len(s)] = " " THEN TrimEnd(SubSeq(s, 1, Len(s) - 1)) ELSE s

\* answer.trim()
trim(s) == TrimEnd(TrimStart(s))

RECURSIVE Pow10(_)
Pow10(k) == IF k = 0 THEN 1 ELSE 10 * Pow10(k - 1)

\* the value of a sequence of decimal digits
RECURSIVE DecimalValue(_)
DecimalValue(ds) ==
    IF ds = <<>> THEN 0
    ELSE 10 * DecimalValue(SubSeq(ds, 1, Len(ds) - 1)) + DigitValue(ds[Len(ds)])

\* Number(userInput) on strings of the characters modelled: white space is
\* stripped, the empty string is 0, an optional sign is followed by digits
\* with at most one decimal point and at least one digit; all else is NaN.
\* (Infinity, exponents and 0x/0o/0b prefixes need letters that Chars lacks.)
Number(str) ==
    LET s      == trim(str)
        signed == s # <<>> /\ s[1] \in {"+", "-"}
        body   == IF signed THEN Tail(s) ELSE s
        dots   == {i \in 1..Len(body) : body[i] = "."}
        digits == SelectSeq(body, IsDigit)
        frac   == IF dots = {} THEN 0
                  ELSE Len(body) - (CHOOSE i \in dots : TRUE)
        value  == DecimalValue(digits)
    IN  IF s = <<>> THEN [nan |-> FALSE, n |-> 0, d |-> 1]
        ELSE IF /\ \A i \in 1..Len(body) : IsDigit(body[i]) \/ body[i] = "."
                /\ Cardinality(dots) <= 1
                /\ digits # <<>>
        THEN [nan |-> FALSE,
              n   |-> IF s[1] = "-" THEN 0 - value ELSE value,
              d   |-> Pow10(frac)]
        ELSE NaN

\* userMoveIndex - 1
MinusOne(num) == IF num.nan THEN NaN ELSE [num EXCEPT !.n = num.n - num.d]

---------------------------------------------------------------------------
(* CryptoProvider and HMACGenerator *)

\* crypto.createHmac(algorithm, key).update(message).digest('hex'): the
\* digest is a term that determines algorithm, key and message
createHmac(algorithm, key, message) == <<algorithm, key, message>>

\* variant: key and message exchanged
generateHMACSwapped(move, key) == createHmac("sha3-256", move, key)

\* HMACGenerator.generateHMAC(move, hmacKey)
generateHMAC(move, key) == createHmac("sha3-256", key, move)

---------------------------------------------------------------------------
(* GameLogic *)

\* variant: the moves before the computer's move instead of those after it
winningMovesBefore(ms, computerIndex) ==
    LET half == Len(ms) \div 2
    IN  slice(ms, Max(computerIndex - half, 0), computerIndex)
            \o slice(ms, computerIndex + 1 + half, Len(ms))

\* const winningMoves of determineWinner
winningMoves(ms, computerIndex) ==
    LET half == Len(ms) \div 2
    IN  slice(ms, computerIndex + 1, computerIndex + 1 + half)
            \o slice(ms, 0, computerIndex - half)

\* variant: only the computer's move is looked up
moveUnknownComputerOnly(ms, user, computer) == indexOf(ms, computer) = -1

\* the guard of determineWinner: a move that is not in the list
moveUnknown(ms, user, computer) ==
    indexOf(ms, user) = -1 \/ indexOf(ms, computer) = -1

\* GameLogic.determineWinner(userMove, computerMove)
determineWinner(ms, user, computer) ==
    IF moveUnknown(ms, user, computer) THEN Threw
    ELSE IF user = computer THEN Draw
    ELSE IF includes(winningMoves(ms, indexOf(ms, computer)), user) THEN Won
    ELSE ComputerWon

---------------------------------------------------------------------------
(* RPSHelper *)

\* RPSHelper.determineOutcome(indexA, indexB, n); diff <= n / 2 is a
\* comparison with the real quotient, that is 2 * diff <= n
determineOutcome(indexA, indexB, n) ==
    LET diff == (indexB - indexA + n) % n
    IN  IF diff = 0 THEN "Draw"
        ELSE IF 2 * diff <= n THEN "Win"
        ELSE "Lose"

\* RPSHelper.generateTable(moves): row i is <<moves[i], outcome(i, 0), ...>>
generateTable(ms) ==
    [i \in 1..Len(ms) |->
        <<ms[i]>> \o [j \in 1..Len(ms) |-> determineOutcome(i - 1, j - 1, Len(ms))]]

---------------------------------------------------------------------------
(* Inputs *)

\* the label the pool gives position i
PoolLabel(i) == LabelPool[((i - 1) % Len(LabelPool)) + 1]

\* an argument list of length n: the pool's labels in order, with the first
\* label repeated at the positions in dup
ArgList(n, dup) == [i \in 1..n |-> IF i \in dup THEN PoolLabel(1) ELSE PoolLabel(i)]

\* the argument lists a session is started with
ArgLists == UNION {{ArgList(n, dup) : dup \in SUBSET (2..n)} : n \in 0..MaxArgs}

\* the lines the user may type
InputLines == UNION {[1..n -> Chars] : n \in 0..MaxLineLen}

---------------------------------------------------------------------------
(* main and the constructors *)

\* variant: repeated labels are not looked for
invalidMovesIgnoringDuplicates(ms) == Len(ms) < 3 \/ Len(ms) % 2 # 1

\* the condition of main under which it throws
invalidMoves(ms) ==
    \/ Len(ms) < 3
    \/ Len(ms) % 2 # 1
    \/ Cardinality({ms[i] : i \in 1..Len(ms)}) # Len(ms)

\* console.error(`Error: ${error.message}`) of main and of handleError
handleError(t, message) == Append(t, Ev("error", message))

\* variant: the banner alone, the digest left out
printGameIntroWithoutDigest(t, digest) == Append(t, Ev("banner", "RPS Game"))

\* GameController.printGameIntro(hmac)
printGameIntro(t, digest) ==
    Append(Append(t, Ev("banner", "RPS Game")), Ev("hmac", digest))

\* GameController.printAvailableMoves()
printAvailableMoves(t, ms) == Append(t, Ev("menu", ms))

\* main: the argument list is rejected
ConfigError ==
    /\ pc = "main"
    /\ invalidMoves(argv)
    /\ tty' = handleError(tty, UsageMessage)
    /\ pc' = "done"
    /\ UNCHANGED <<argv, moves, hmacKey, computerMove, hmac, userInput,
                   userMoveIndex, userMove, result, helpTable>>

\* main: the game is constructed (generateKey) and playGame runs up to its
\* await: the computer's move is drawn, the digest computed and shown, the
\* moves listed and the question asked
StartGame ==
    /\ pc = "main"
    /\ ~invalidMoves(argv)
    /\ \E key \in Keys, r \in 0..(Len(argv) - 1) :
          LET move   == argv[r + 1]
              digest == generateHMAC(move, key)
          IN  /\ hmacKey' = key
              /\ computerMove' = move
              /\ hmac' = digest
              /\ tty' = Append(printAvailableMoves(printGameIntro(tty, digest), argv),
                               Ev("prompt", "Enter your move: "))
    /\ moves' = argv
    /\ pc' = "promptUser"
    /\ UNCHANGED <<argv, userInput, userMoveIndex, userMove, result, helpTable>>

---------------------------------------------------------------------------
(* GameController.playGame after the await *)

\* GameController.validateUserInput(userMoveIndex): whether it throws
validateUserInput(ms, num) ==
    num.nan \/ num.n < 0 \/ num.n > Len(ms) * num.d

\* promptUser: the callback of rl.question resolves with answer.trim()
PromptUser ==
    /\ pc = "promptUser"
    /\ \E answer \in InputLines :
          /\ userInput' = trim(answer)
          /\ tty' = Append(tty, Ev("input", answer))
    /\ pc' = "playGame"
    /\ UNCHANGED <<argv, moves, hmacKey, computerMove, hmac,
                   userMoveIndex, userMove, result, helpTable>>

\* variant: after the help table the question is asked again
DisplayHelpAndAskAgain ==
    /\ pc = "playGame"
    /\ userInput = <<"?">>
    /\ helpTable' = generateTable(moves)
    /\ tty' = Append(Append(tty, Ev("help", generateTable(moves))),
                     Ev("prompt", "Enter your move: "))
    /\ pc' = "promptUser"
    /\ userInput' = NoInput
    /\ UNCHANGED <<argv, moves, hmacKey, computerMove, hmac,
                   userMoveIndex, userMove, result>>

\* userInput === '?': displayHelp(); return
DisplayHelp ==
    /\ pc = "playGame"
    /\ userInput = <<"?">>
    /\ helpTable' = generateTable(moves)
    /\ tty' = Append(tty, Ev("help", generateTable(moves)))
    /\ pc' = "done"
    /\ UNCHANGED <<argv, moves, hmacKey, computerMove, hmac, userInput,
                   userMoveIndex, userMove, result>>

\* userInput === '0': 'Exiting...'; return
Exit ==
    /\ pc = "playGame"
    /\ userInput = <<"0">>
    /\ tty' = Append(tty, Ev("exit", "Exiting..."))
    /\ pc' = "done"
    /\ UNCHANGED <<argv, moves, hmacKey, computerMove, hmac, userInput,
                   userMoveIndex, userMove, result, helpTable>>

\* any other input: lines 87-95, and the catch block when one of them throws
ChooseMove ==
    /\ pc = "playGame"
    /\ userInput # <<"?">>
    /\ userInput # <<"0">>
    /\ LET index   == Number(userInput)
           move    == elementAt(moves, MinusOne(index))
           outcome == determineWinner(moves, move, computerMove)
           shown   == Append(Append(tty, Ev("yourMove", move)),
                             Ev("computerMove", computerMove))
       IN  /\ userMoveIndex' = index
           /\ userMove' = move
           /\ IF validateUserInput(moves, index)
              THEN /\ tty' = handleError(tty, InvalidMoveMessage)
                   /\ result' = result
              ELSE IF outcome = Threw
              THEN /\ tty' = handleError(shown, InvalidMoveMessage)
                   /\ result' = Threw
              ELSE /\ tty' = Append(Append(shown, Ev("result", outcome)),
                                    Ev("key", hmacKey))
                   /\ result' = outcome
    /\ pc' = "done"
    /\ UNCHANGED <<argv, moves, hmacKey, computerMove, hmac, userInput, helpTable>>

---------------------------------------------------------------------------
(* The session *)

Init ==
    /\ pc = "main"
    /\ argv \in ArgLists
    /\ moves = <<>>
    /\ hmacKey = NoKey
    /\ computerMove = NoMove
    /\ hmac = NoDigest
    /\ userInput = NoInput
    /\ userMoveIndex = NoNumber
    /\ userMove = NoMove
    /\ result = NoResult
    /\ helpTable = <<>>
    /\ tty = <<>>

Next ==
    \/ ConfigError
    \/ StartGame
    \/ PromptUser
    \/ DisplayHelp
    \/ Exit
    \/ ChooseMove

Spec == Init /\ [][Next]_vars

---------------------------------------------------------------------------
(* GameLogic and RPSHelper on their own: the functions applied to every    *)
(* valid move list and every pair of moves                                 *)

\* the valid move lists: odd length from 3, distinct labels
LogicMoveLists ==
    LET labels == {PoolLabel(i) : i \in 1..MaxArgs}
    IN  UNION {{ms \in [1..n -> labels] : ~invalidMoves(ms)} : n \in 3..MaxArgs}

InitLogic ==
    /\ pc = "logic"
    /\ moves \in LogicMoveLists
    /\ argv = moves
    /\ hmacKey = NoKey
    /\ computerMove = NoMove
    /\ hmac = NoDigest
    /\ userInput = NoInput
    /\ userMoveIndex = NoNumber
    /\ userMove = NoMove
    /\ result = NoResult
    /\ helpTable = <<>>
    /\ tty = <<>>

\* determineWinner(userMove, computerMove) is called
EvalWinner ==
    /\ pc = "logic"
    /\ result = NoResult
    /\ \E user \in {moves[i] : i \in 1..Len(moves)} \cup {Undefined},
          computer \in {moves[i] : i \in 1..Len(moves)} :
          /\ userMove' = user
          /\ computerMove' = computer
          /\ result' = determineWinner(moves, user, computer)
    /\ UNCHANGED <<pc, argv, moves, hmacKey, hmac, userInput, userMoveIndex,
                   helpTable, tty>>

\* generateTable(moves) is called
EvalTable ==
    /\ pc = "logic"
    /\ helpTable = <<>>
    /\ helpTable' = generateTable(moves)
    /\ UNCHANGED <<pc, argv, moves, hmacKey, computerMove, hmac, userInput,
                   userMoveIndex, userMove, result, tty>>

NextLogic ==
    \/ EvalWinner
    \/ EvalTable

SpecLogic == InitLogic /\ [][NextLogic]_vars

---------------------------------------------------------------------------
(* What the claims speak of *)

Outcomes == {Draw, Won, ComputerWon}

RPSLS == <<"Rock", "Paper", "Scissors", "Lizard", "Spock">>

\* the positions of the transcript that hold a line of the given kind
Positions(kind) == {i \in 1..Len(tty) : tty[i].kind = kind}

Shown(kind) == Positions(kind) # {}

\* the digest of a key and a move under the program's hash algorithm
Digest(key, move) == <<"sha3-256", key, move>>

\* the typed line selects one of the moves 1..n
SelectsMove(line, n) ==
    LET num == Number(trim(line))
    IN  /\ ~num.nan
        /\ num.n % num.d = 0
        /\ (num.n \div num.d) \in 1..n

\* the typed line is neither help, nor exit, nor the selection of a move
Rejected(line, n) ==
    /\ trim(line) # <<"?">>
    /\ trim(line) # <<"0">>
    /\ ~SelectsMove(line, n)

\* the outcome the cyclic rule gives at 0-based positions iHuman, iComputer
CycleOutcome(iHuman, iComputer, n) ==
    IF iHuman = iComputer THEN Draw
    ELSE IF ((iHuman - iComputer + n) % n) \in 1..(n \div 2) THEN Won
    ELSE ComputerWon

\* a cell of the help table as the resolver words it
TableOutcome(cell) ==
    CASE cell = "Draw" -> Draw
      [] cell = "Win"  -> Won
      [] cell = "Lose" -> ComputerWon

\* the argument lists the configuration rule rejects
RejectedArgs(a) ==
    \/ Len(a) % 2 = 0
    \/ Len(a) < 3
    \/ \E i, j \in 1..Len(a) : i # j /\ a[i] = a[j]

---------------------------------------------------------------------------
(* The claims *)

\* C1: for member moves at positions iHuman and iComputer, determineWinner
\* reports a draw iff the positions are equal, a win for the human iff
\* (iHuman - iComputer + N) mod N is in 1..floor(N/2), and a win for the
\* computer otherwise.
C1_WinnerFollowsCycle ==
    (pc = "logic" /\ result \in Outcomes) =>
        result = CycleOutcome(indexOf(moves, userMove),
                              indexOf(moves, computerMove), Len(moves))

\* C2: the digest of the key and the computer's move is shown before any
\* input is read, and the key is printed only after an input that selects a
\* move in 1..N has been read.
C2_DigestBeforeInputKeyAfterMove ==
    /\ \A i \in Positions("input") :
          \E j \in 1..(i - 1) :
              tty[j].kind = "hmac" /\ tty[j].val = Digest(hmacKey, computerMove)
    /\ \A i \in Positions("key") :
          \E j \in 1..(i - 1) :
              tty[j].kind = "input" /\ SelectsMove(tty[j].val, Len(moves))

C2_Witness ==
    /\ pc = "done"
    /\ \E h \in Positions("hmac"), i \in Positions("input"), k \in Positions("key") :
          h < i /\ i < k

\* C3: in a session that reveals the key, the one digest shown at the start
\* is the HMAC of the key printed and the computer move announced, and these
\* are the key and the move the game holds.
C3_RevealMatchesCommitment ==
    Shown("key") =>
        /\ Cardinality(Positions("hmac")) = 1
        /\ Cardinality(Positions("key")) = 1
        /\ Cardinality(Positions("computerMove")) = 1
        /\ \E h \in Positions("hmac"), m \in Positions("computerMove"),
              k \in Positions("key") :
              /\ h < m /\ m < k
              /\ tty[h].val = Digest(tty[k].val, tty[m].val)
              /\ tty[h].val = hmac
              /\ tty[k].val = hmacKey
              /\ tty[m].val = computerMove

C3_Witness ==
    /\ pc = "done"
    /\ Shown("key")
    /\ \E h \in Positions("hmac") : tty[h].val = Digest("key-b", PoolLabel(3))

\* C4: the help table's entry in row i (computer plays move i), column j
\* (user plays move j) is the outcome determineWinner reports for that pair.
C4_TableAgreesWithWinner ==
    (pc = "logic" /\ result \in Outcomes /\ helpTable # <<>>) =>
        TableOutcome(helpTable[indexOf(moves, computerMove) + 1]
                              [indexOf(moves, userMove) + 2]) = result

\* C5: for two distinct member moves, the human wins with (m1, m2) iff the
\* human loses with (m2, m1).
C5_AntiSymmetry ==
    (pc = "logic" /\ result \in Outcomes /\ userMove # computerMove) =>
        (result = Won <=> determineWinner(moves, computerMove, userMove) = ComputerWon)

\* C6 as stated: after '?' the help table is shown and the session is again
\* waiting for input, with the same digest, key and computer move.
C6_HelpReturnsToPrompt ==
    Shown("help") =>
        /\ pc = "promptUser"
        /\ hmac = Digest(hmacKey, computerMove)

\* C6 as amended: after '?' the help table is shown and the session ends: no
\* further input is read, nothing is regenerated (the digest shown is still
\* that of the game's key and computer move), nothing is revealed.
C6_HelpEndsSession ==
    Shown("help") =>
        /\ pc = "done"
        /\ Cardinality(Positions("input")) = 1
        /\ tty[Len(tty)] = Ev("help", generateTable(moves))
        /\ \A h \in Positions("hmac") : tty[h].val = Digest(hmacKey, computerMove)
        /\ Cardinality(Positions("hmac")) = 1
        /\ ~Shown("key")
        /\ ~Shown("computerMove")
        /\ ~Shown("result")

C6_Witness ==
    /\ pc = "done"
    /\ Shown("help")
    /\ userInput = <<"?">>

\* C7: an input other than '?' and '0' that selects no move in 1..N ends the
\* session with the InvalidInput message shown, no outcome announced, the key
\* never printed and no second input read.
C7_InvalidInputRejected ==
    \A i \in Positions("input") :
        Rejected(tty[i].val, Len(moves)) =>
            /\ ~Shown("result")
            /\ ~Shown("key")
            /\ Cardinality(Positions("input")) = 1
            /\ pc \in {"playGame", "done"}
            /\ pc = "done" => tty[Len(tty)] = Ev("error", InvalidMoveMessage)

C7_Witness ==
    /\ pc = "done"
    /\ \E i \in Positions("input") : Rejected(tty[i].val, Len(moves))
    /\ tty[Len(tty)].kind = "error"
    /\ ~validateUserInput(moves, userMoveIndex)

\* C8: an argument list of even size, of size below 3 or with a duplicate
\* label ends in a configuration error with no key generated, no computer
\* move drawn, no digest shown and no input read.
C8_ConfigurationRejected ==
    RejectedArgs(argv) =>
        /\ hmacKey = NoKey
        /\ computerMove = NoMove
        /\ hmac = NoDigest
        /\ moves = <<>>
        /\ pc \in {"main", "done"}
        /\ pc = "done" => tty = <<Ev("error", UsageMessage)>>
        /\ pc = "main" => tty = <<>>

C8_Witness ==
    /\ pc = "done"
    /\ Len(argv) = 5
    /\ \E i, j \in 1..Len(argv) : i # j /\ argv[i] = argv[j]
    /\ Shown("error")

\* C9 as stated: with Rock Paper Scissors Lizard Spock, a human playing
\* Scissors wins against Lizard and Paper and loses against Rock and Spock.
C9_ScissorsBeatsLizardAndPaper ==
    (pc = "logic" /\ moves = RPSLS /\ userMove = "Scissors" /\ result # NoResult) =>
        /\ computerMove \in {"Lizard", "Paper"} => result = Won
        /\ computerMove \in {"Rock", "Spock"} => result = ComputerWon

\* C9 as amended: with Rock Paper Scissors Lizard Spock, a human playing
\* Scissors wins against Paper and Rock and loses against Lizard and Spock.
C9_ScissorsBeatsPaperAndRock ==
    (pc = "logic" /\ moves = RPSLS /\ userMove = "Scissors" /\ result # NoResult) =>
        /\ computerMove \in {"Paper", "Rock"} => result = Won
        /\ computerMove \in {"Lizard", "Spock"} => result = ComputerWon

C9_Witness ==
    /\ pc = "logic"
    /\ moves = RPSLS
    /\ userMove = "Scissors"
    /\ computerMove = "Rock"
    /\ result = Won

\* C10: a session that ends by exit, by help or with an InvalidInput error
\* has printed neither the computer's move nor the key.
C10_MoveDisclosedOnlyWithOutcome ==
    (pc = "done" /\ moves # <<>> /\ (Shown("exit") \/ Shown("help") \/ Shown("error"))) =>
        /\ ~Shown("computerMove")
        /\ ~Shown("key")

===========================================================================
